---- MODULE Spec2Model ----
(***************************************************************************)
(* State-machine model of webext/background_script.ts of keep-it-focused:  *)
(* TimeManager (authorizations and alarms), RuleManager (session rules),   *)
(* ConfigManager (fetch loop) and the startup / suspend listeners.         *)
(*                                                                         *)
(* JavaScript runs each callback to completion; control is given up only   *)
(* at an await of real I/O.  One action of this module is one such run:    *)
(* from an event (a listener call, an I/O completion) to the next await.   *)
(* Instants are milliseconds since today's midnight.                       *)
(***************************************************************************)
EXTENDS Integers, Sequences, FiniteSets, TLC

\* ------------------------------------------------------------------------
\* Program constants (background_script.ts:2-7)
ONE_MINUTE_MS == 1000 * 60
TWO_MINUTES_MS == 1000 * 60 * 2
THREE_MINUTES_MS == 1000 * 60 * 3
FOUR_MINUTES_MS == 1000 * 60 * 4
FIVE_MINUTES_MS == 1000 * 60 * 5

\* ------------------------------------------------------------------------
\* Bounds of the model
\* Successful fetches (each one allocates a generation of Interval objects).
MaxFetches == 2
\* Dispatches of runtime.onInstalled.
MaxInstalls == 2
\* Asynchronous TimeManager tasks (flush / _onAlarm) in flight together.
MaxTasks == 2
\* Intervals of a domain in one payload of the first refresh.
MaxIntervals == 2
\* The half minutes after midnight at which a warning is looked for.
MaxHalfMinutes == 16
\* Direct calls of addInterval / removeInterval before a flush.
MaxCalls == 2

\* ------------------------------------------------------------------------
\* Inputs
Domains == {"a.com", "b.com"}

\* The instants the clock visits, in ms since midnight.
Instants == {m * ONE_MINUTE_MS : m \in {0, 1, 6, 7}}

\* HHMM strings are sequences of characters.
H0001 == <<"0", "0", "0", "1">>
H0006 == <<"0", "0", "0", "6">>
H0007 == <<"0", "0", "0", "7">>
H0008 == <<"0", "0", "0", "8">>
H0800 == <<"0", "8", "0", "0">>
H0900 == <<"0", "9", "0", "0">>
HBad == <<"7", "h">>

\* JSON payloads of the daemon: a sequence of (domain, list of {start, end}),
\* in the order of Object.keys.
JA == [start |-> H0001, end |-> H0007]
JB == [start |-> H0006, end |-> H0008]
JBad == [start |-> H0001, end |-> HBad]

Payloads ==
    { <<>>,
      << [domain |-> "a.com", intervals |-> <<JA>>] >>,
      << [domain |-> "a.com", intervals |-> <<JA, JB>>] >>,
      << [domain |-> "a.com", intervals |-> <<JB, JA>>] >>,
      << [domain |-> "a.com", intervals |-> <<JA>>],
         [domain |-> "b.com", intervals |-> <<JB>>] >>,
      << [domain |-> "b.com", intervals |-> <<JBad>>] >> }

\* Payloads of one domain: every list of 1..MaxIntervals intervals, repeated
\* and inverted ones included, in every order.
JIntervals == {JA, JB, [start |-> H0001, end |-> H0006], [start |-> H0007, end |-> H0001]}

FirstCyclePayloads ==
    { << [domain |-> "a.com", intervals |-> list] >> :
        list \in UNION {[1..n -> JIntervals] : n \in 1..MaxIntervals} }

\* The payloads of the daemon over the life of the script: no domain, one
\* domain, or a malformed HHMM.
LifePayloads ==
    { <<>>,
      << [domain |-> "a.com", intervals |-> <<JA>>] >>,
      << [domain |-> "b.com", intervals |-> <<JBad>>] >> }

\* The instants and payloads of the warnings: every half minute up to
\* MaxHalfMinutes and 08:30, 08:59, 09:00; one domain with one interval.
WarnInstants ==
    {h * (ONE_MINUTE_MS \div 2) : h \in 0..MaxHalfMinutes}
        \cup {(8 * 60 + 30) * ONE_MINUTE_MS, (8 * 60 + 59) * ONE_MINUTE_MS, 9 * 60 * ONE_MINUTE_MS}
WarnPayloads ==
    { << [domain |-> "a.com", intervals |-> <<JA>>] >>,
      << [domain |-> "a.com", intervals |-> <<[start |-> H0800, end |-> H0900]>>] >> }

\* What tabs.query({active: true, url: `*://*.${domain}/*`}) resolves with:
\* no tab, or the active tabs of two windows.
TabResults == {<<>>, <<[id |-> 1], [id |-> 2]>>}

\* ------------------------------------------------------------------------
\* Generic helpers for JavaScript Map / Set / Array values
MapHas(m, k) == k \in DOMAIN m
MapSet(m, k, v) == [x \in (DOMAIN m) \cup {k} |-> IF x = k THEN v ELSE m[x]]
MapDelete(m, k) == [x \in (DOMAIN m) \ {k} |-> m[x]]
EmptyMap == [x \in {} |-> x]
SeqHas(s, e) == \E k \in 1..Len(s) : s[k] = e
SeqAdd(s, e) == IF SeqHas(s, e) THEN s ELSE Append(s, e)
SeqDelete(s, e) == SelectSeq(s, LAMBDA x : x # e)
Range(s) == {s[k] : k \in 1..Len(s)}

\* ------------------------------------------------------------------------
\* Interval (an object: `id` is its identity, Map and Set compare by it)

\* The result of Interval.contains: a number of milliseconds, or false.
False == [isNumber |-> FALSE, value |-> 0]
Number(n) == [isNumber |-> TRUE, value |-> n]
Truthy(r) == r.isNumber /\ r.value # 0

\* (variant: the end of the interval is taken as inside)
containsEndInclusive(interval, date) ==
    IF interval.start <= date /\ interval.end >= date
    THEN Number(interval.end - date)
    ELSE False

contains(interval, date) ==
    IF interval.start <= date /\ interval.end > date
    THEN Number(interval.end - date)
    ELSE False

\* Date.prototype.toString has a resolution of one second.
DateToString(date) == date \div 1000
toString(interval) == <<"interval", DateToString(interval.start), DateToString(interval.end)>>

\* Authorization
Authorization(domain, interval) == [domain |-> domain, interval |-> interval]
keyEnter(authorization) == <<authorization.domain, toString(authorization.interval), "enter">>
keyExit(authorization) == <<authorization.domain, toString(authorization.interval), "exit">>

\* ------------------------------------------------------------------------
\* hhmmToDate: the leftmost four consecutive digits, as hours and minutes of
\* today; seconds are set to 0 (the clock of the model has whole seconds, so
\* the milliseconds kept from `new Date()` are 0 too).
Digits == <<"0", "1", "2", "3", "4", "5", "6", "7", "8", "9">>
IsDigit(c) == \E k \in 1..10 : Digits[k] = c
parseDigit(c) == (CHOOSE k \in 1..10 : Digits[k] = c) - 1
HHMMexec(source) == {k \in 1..(Len(source) - 3) : \A j \in 0..3 : IsDigit(source[k + j])}
hhmmToDate(source) ==
    IF HHMMexec(source) = {}
    THEN [threw |-> TRUE, date |-> 0]
    ELSE LET k == CHOOSE c \in HHMMexec(source) : \A o \in HHMMexec(source) : c <= o
             hours == 10 * parseDigit(source[k]) + parseDigit(source[k + 1])
             minutes == 10 * parseDigit(source[k + 2]) + parseDigit(source[k + 3])
         IN [threw |-> FALSE, date |-> hours * 60 * ONE_MINUTE_MS + minutes * ONE_MINUTE_MS]

\* ------------------------------------------------------------------------
\* TimeManager.  Its synchronous methods are operators on a bundle
\*   s = [tm, alarms, calls, threw]
\* where tm holds the fields of the object, alarms is browser.alarms (name ->
\* {when, periodInMinutes}), calls logs the addInterval / removeInterval calls
\* received, and threw says that an exception is propagating.
\*   tm.authorizationsByDomain : domain -> the keys of the Map<Interval,
\*       Authorization>, in insertion order
\*   tm.authorizationsByAlarmKeyEnter / Exit : alarm name -> Authorization
\*   tm.domainsToCheck : the Set of domains, in insertion order
NewTimeManager ==
    [authorizationsByDomain |-> EmptyMap,
     authorizationsByAlarmKeyEnter |-> EmptyMap,
     authorizationsByAlarmKeyExit |-> EmptyMap,
     domainsToCheck |-> <<>>]

alarmsCreate(alarms, name, info) == MapSet(alarms, name, info)
alarmsClear(alarms, name) == MapDelete(alarms, name)
\* An alarm whose time has passed is due now, whatever its time was.
alarmsDue(alarms, date) ==
    [name \in DOMAIN alarms |->
        IF alarms[name].when < date THEN [alarms[name] EXCEPT !.when = date] ELSE alarms[name]]

_registerAlarms(s, authorization) ==
    LET warnMeAtTS == authorization.interval.end - 1000 * 60 * 5
        a1 == alarmsCreate(s.alarms, keyEnter(authorization),
                           [when |-> authorization.interval.start, periodInMinutes |-> 0])
        a2 == alarmsCreate(a1, keyExit(authorization),
                           [when |-> warnMeAtTS, periodInMinutes |-> 1])
    IN [s EXCEPT !.tm.authorizationsByAlarmKeyEnter = MapSet(@, keyEnter(authorization), authorization),
                 !.tm.authorizationsByAlarmKeyExit = MapSet(@, keyExit(authorization), authorization),
                 !.alarms = a2]

\* (variant: the exit alarm is not cleared)
_unregisterAlarmsKeepingExit(s, authorization) ==
    [s EXCEPT !.alarms = alarmsClear(@, keyEnter(authorization)),
              !.tm.authorizationsByAlarmKeyEnter = MapDelete(@, keyEnter(authorization)),
              !.tm.authorizationsByAlarmKeyExit = MapDelete(@, keyExit(authorization))]

\* (variant: the entry of the enter table is left)
_unregisterAlarmsKeepingEnterEntry(s, authorization) ==
    [s EXCEPT !.alarms = alarmsClear(alarmsClear(@, keyEnter(authorization)), keyExit(authorization)),
              !.tm.authorizationsByAlarmKeyExit = MapDelete(@, keyExit(authorization))]

_unregisterAlarms(s, authorization) ==
    [s EXCEPT !.alarms = alarmsClear(alarmsClear(@, keyEnter(authorization)), keyExit(authorization)),
              !.tm.authorizationsByAlarmKeyEnter = MapDelete(@, keyEnter(authorization)),
              !.tm.authorizationsByAlarmKeyExit = MapDelete(@, keyExit(authorization))]

addInterval(s, domain, interval) ==
    LET authorization == Authorization(domain, interval)
        byInterval == IF MapHas(s.tm.authorizationsByDomain, domain)
                      THEN s.tm.authorizationsByDomain[domain]
                      ELSE <<>>
        s1 == [s EXCEPT !.tm.authorizationsByDomain = MapSet(@, domain, SeqAdd(byInterval, interval)),
                        !.calls = Append(@, [op |-> "addInterval", domain |-> domain, interval |-> interval])]
        s2 == _registerAlarms(s1, authorization)
    IN [s2 EXCEPT !.tm.domainsToCheck = SeqAdd(@, domain)]

\* (variant: an unknown interval is not looked for, its alarms are cleared)
removeIntervalUnchecked(s, domain, interval) ==
    LET s0 == [s EXCEPT !.calls = Append(@, [op |-> "removeInterval", domain |-> domain, interval |-> interval])]
    IN IF ~MapHas(s.tm.authorizationsByDomain, domain)
       THEN [s0 EXCEPT !.threw = TRUE]
       ELSE LET byInterval == SeqDelete(s.tm.authorizationsByDomain[domain], interval)
                s1 == [s0 EXCEPT !.tm.authorizationsByDomain =
                                    IF Len(byInterval) = 0
                                    THEN MapDelete(@, domain)
                                    ELSE MapSet(@, domain, byInterval)]
            IN _unregisterAlarms(s1, Authorization(domain, interval))

\* (variant: the entry of a domain is kept when its last interval leaves)
removeIntervalKeepingEntry(s, domain, interval) ==
    LET s0 == [s EXCEPT !.calls = Append(@, [op |-> "removeInterval", domain |-> domain, interval |-> interval])]
    IN IF ~MapHas(s.tm.authorizationsByDomain, domain)
       THEN [s0 EXCEPT !.threw = TRUE]
       ELSE IF ~SeqHas(s.tm.authorizationsByDomain[domain], interval)
       THEN [s0 EXCEPT !.threw = TRUE]
       ELSE LET byInterval == SeqDelete(s.tm.authorizationsByDomain[domain], interval)
                s1 == [s0 EXCEPT !.tm.authorizationsByDomain = MapSet(@, domain, byInterval)]
            IN _unregisterAlarms(s1, Authorization(domain, interval))

removeInterval(s, domain, interval) ==
    LET s0 == [s EXCEPT !.calls = Append(@, [op |-> "removeInterval", domain |-> domain, interval |-> interval])]
    IN IF ~MapHas(s.tm.authorizationsByDomain, domain)
       THEN [s0 EXCEPT !.threw = TRUE]
       ELSE IF ~SeqHas(s.tm.authorizationsByDomain[domain], interval)
       THEN [s0 EXCEPT !.threw = TRUE]
       ELSE LET byInterval == SeqDelete(s.tm.authorizationsByDomain[domain], interval)
                s1 == [s0 EXCEPT !.tm.authorizationsByDomain =
                                    IF Len(byInterval) = 0
                                    THEN MapDelete(@, domain)
                                    ELSE MapSet(@, domain, byInterval)]
            IN _unregisterAlarms(s1, Authorization(domain, interval))

\* The loop of _checkDomain over intervals.keys(): `remains` is the result of
\* the last contains() evaluated, the loop breaks at the first truthy one.
\* (variant: the loop has no break, the last interval decides)
scanIntervalsNoBreak(intervals, date) == contains(intervals[Len(intervals)], date)

RECURSIVE scanIntervals(_, _)
scanIntervals(intervals, date) ==
    LET remains == contains(Head(intervals), date)
    IN IF Truthy(remains) \/ Len(intervals) = 1
       THEN remains
       ELSE scanIntervals(Tail(intervals), date)

\* ------------------------------------------------------------------------
\* RuleManager.  A rule of declarativeNetRequest is
\*   [id, action ("block"), urlFilter (<<"||", domain>>)]
\* rm.urlFilters is [isNull, filters]; guard is the tabs.onUpdated listener
\* ([installed, urls]).
NewRuleManager ==
    [counter |-> 1,
     addRules |-> <<>>,
     removeRuleIds |-> <<>>,
     currentRules |-> <<>>,
     currentRulesByDomain |-> EmptyMap,
     urlFilters |-> [isNull |-> TRUE, filters |-> {}]]

BlockRule(id, domain) == [id |-> id, action |-> "block", urlFilter |-> <<"||", domain>>]

\* The capture of /\|\|(.*)/ in a url filter, <<>> when there is none.
urlFilterMatch(urlFilter) ==
    IF Len(urlFilter) >= 2 /\ urlFilter[1] = "||" /\ urlFilter[2] # ""
    THEN <<urlFilter[2]>>
    ELSE <<>>

RECURSIVE computeRulesByDomainFrom(_, _)
computeRulesByDomainFrom(rulesByDomain, rules) ==
    IF rules = <<>>
    THEN rulesByDomain
    ELSE LET rule == Head(rules)
             match == urlFilterMatch(rule.urlFilter)
         IN IF rule.action # "block" \/ match = <<>>
            THEN computeRulesByDomainFrom(rulesByDomain, Tail(rules))
            ELSE computeRulesByDomainFrom(MapSet(rulesByDomain, match[1], rule), Tail(rules))

_computeRulesByDomain(rules) == computeRulesByDomainFrom(EmptyMap, rules)

allowDomain(rm, domain) ==
    IF MapHas(rm.currentRulesByDomain, domain)
    THEN [rm EXCEPT !.removeRuleIds = Append(@, rm.currentRulesByDomain[domain].id),
                    !.urlFilters = [isNull |-> TRUE, filters |-> {}]]
    ELSE rm

forbidDomain(rm, domain) ==
    IF MapHas(rm.currentRulesByDomain, domain)
    THEN rm
    ELSE [rm EXCEPT !.addRules = Append(@, BlockRule(rm.counter + 1, domain)),
                    !.counter = @ + 1,
                    !.urlFilters = [isNull |-> TRUE, filters |-> {}]]

\* RuleManager.flush up to its first await: the queues are taken and emptied;
\* io says whether updateSessionRules is called.
NoUpdate == [addRules |-> <<>>, removeRuleIds |-> <<>>]

\* (variant: updateSessionRules is called whatever the queues hold)
flushBeginAlwaysWrites(rm) ==
    [rm |-> [rm EXCEPT !.addRules = <<>>, !.removeRuleIds = <<>>],
     update |-> [addRules |-> rm.addRules, removeRuleIds |-> rm.removeRuleIds],
     io |-> TRUE]

flushBegin(rm) ==
    LET update == [addRules |-> rm.addRules, removeRuleIds |-> rm.removeRuleIds]
    IN [rm |-> [rm EXCEPT !.addRules = <<>>, !.removeRuleIds = <<>>],
        update |-> update,
        io |-> (Len(update.addRules) # 0 \/ Len(update.removeRuleIds) # 0)]

\* The assignments after `await getSessionRules()` (flush, _fetchSessionRules).
setCurrentRules(rm, rules) ==
    [rm EXCEPT !.currentRules = rules,
               !.currentRulesByDomain = _computeRulesByDomain(rules)]

\* The counter seeding of RuleManager.init.
\* (variant: the counter is not seeded)
seedCounterNone(counter, rules) == counter

RECURSIVE seedCounter(_, _)
seedCounter(counter, rules) ==
    IF rules = <<>>
    THEN counter
    ELSE seedCounter(IF Head(rules).id >= counter THEN Head(rules).id + 1 ELSE counter,
                     Tail(rules))

\* browser.tabs.onUpdated for the callback _tabListener: removeListener drops
\* its registration; addListener registers it with a filter, and does nothing
\* when the callback is registered already.
removeListener(guard) == [installed |-> FALSE, urls |-> {}]
addListener(guard, urls) == IF guard.installed THEN guard ELSE [installed |-> TRUE, urls |-> urls]

\* RuleManager.urlFilters, on [rm, guard].
\* (variant: the listener is not removed before it is added)
urlFiltersKeepingListener(g) ==
    IF g.rm.urlFilters.isNull
    THEN LET filters == DOMAIN g.rm.currentRulesByDomain
         IN [rm |-> [g.rm EXCEPT !.urlFilters = [isNull |-> FALSE, filters |-> filters]],
             guard |-> IF filters # {} THEN addListener(g.guard, filters) ELSE g.guard]
    ELSE g

urlFilters(g) ==
    IF g.rm.urlFilters.isNull
    THEN LET filters == DOMAIN g.rm.currentRulesByDomain
         IN [rm |-> [g.rm EXCEPT !.urlFilters = [isNull |-> FALSE, filters |-> filters]],
             guard |-> IF filters # {}
                       THEN addListener(removeListener(g.guard), filters)
                       ELSE removeListener(g.guard)]
    ELSE g

\* browser.declarativeNetRequest.updateSessionRules: the rules of removeRuleIds
\* leave, then addRules enter; an id already present rejects the whole update.
updateRejected(rules, update) ==
    LET kept == SelectSeq(rules, LAMBDA r : ~SeqHas(update.removeRuleIds, r.id))
    IN \/ \E r \in Range(kept) : \E a \in Range(update.addRules) : a.id = r.id
       \/ \E i, j \in 1..Len(update.addRules) : i # j /\ update.addRules[i].id = update.addRules[j].id
updateSessionRules(rules, update) ==
    SelectSeq(rules, LAMBDA r : ~SeqHas(update.removeRuleIds, r.id)) \o update.addRules

\* ------------------------------------------------------------------------
\* _checkDomain up to its first await of I/O.  pc is where the call waits:
\*   "return"        no intervals for the domain, the call has returned
\*   "tabsForbidden" forbidDomain() done, waiting for tabs.query
\*   "update"        allowDomain() done, flush waits for updateSessionRules
\*   "tabsAllowed"   allowDomain() done, nothing to flush, waiting for tabs.query
\* (variant: a domain without intervals is forbidden)
_checkDomainForbiddingUnknown(rm, tm, domain, date) ==
    LET remains == IF MapHas(tm.authorizationsByDomain, domain)
                   THEN scanIntervals(tm.authorizationsByDomain[domain], date)
                   ELSE False
    IN IF ~Truthy(remains)
       THEN [rm |-> forbidDomain(rm, domain), pc |-> "tabsForbidden", update |-> NoUpdate,
             decision |-> "FORBIDDEN", remains |-> remains]
       ELSE LET f == flushBegin(allowDomain(rm, domain))
            IN [rm |-> f.rm, pc |-> IF f.io THEN "update" ELSE "tabsAllowed",
                update |-> f.update, decision |-> "ALLOWED", remains |-> remains]

_checkDomain(rm, tm, domain, date) ==
    IF ~MapHas(tm.authorizationsByDomain, domain)
    THEN [rm |-> rm, pc |-> "return", update |-> NoUpdate, decision |-> "none", remains |-> False]
    ELSE LET remains == scanIntervals(tm.authorizationsByDomain[domain], date)
         IN IF ~Truthy(remains)
            THEN [rm |-> forbidDomain(rm, domain), pc |-> "tabsForbidden", update |-> NoUpdate,
                  decision |-> "FORBIDDEN", remains |-> remains]
            ELSE LET f == flushBegin(allowDomain(rm, domain))
                 IN [rm |-> f.rm, pc |-> IF f.io THEN "update" ELSE "tabsAllowed",
                     update |-> f.update, decision |-> "ALLOWED", remains |-> remains]

\* A task is an asynchronous call of TimeManager.flush ("flush") or _onAlarm
\* ("alarm") waiting for I/O: in _checkDomain(domain) at pc, or, when final, in
\* the ruleManager.flush() that ends TimeManager.flush.  todo is what is left
\* of the local domainsToCheck, and sent counts the updateSessionRules calls
\* the asynchronous call has issued so far.
Task(kind, pc, domain, todo, update, remains, final, sent) ==
    [kind |-> kind, pc |-> pc, domain |-> domain, todo |-> todo, update |-> update,
     remains |-> remains, final |-> final, sent |-> sent]

\* updateSessionRules calls issued when a call reaches pc, after sent of them.
sentAt(pc, sent) == IF pc = "update" THEN sent + 1 ELSE sent

\* The loop of TimeManager.flush over todo, then ruleManager.flush(), up to the
\* next await of I/O.  tasks is empty when the call has completed.
RECURSIVE flushLoop(_, _, _, _, _)
flushLoop(rm, tm, todo, date, sent) ==
    IF todo = <<>>
    THEN LET f == flushBegin(rm)
         IN [rm |-> f.rm,
             tasks |-> IF f.io
                       THEN {Task("flush", "update", "", <<>>, f.update, False, TRUE,
                                   sentAt("update", sent))}
                       ELSE {},
             domain |-> "", decision |-> "none", remains |-> False]
    ELSE LET c == _checkDomain(rm, tm, Head(todo), date)
         IN IF c.pc = "return"
            THEN flushLoop(c.rm, tm, Tail(todo), date, sent)
            ELSE [rm |-> c.rm,
                  tasks |-> {Task("flush", c.pc, Head(todo), Tail(todo), c.update, c.remains, FALSE,
                                  sentAt(c.pc, sent))},
                  domain |-> Head(todo), decision |-> c.decision, remains |-> c.remains]

\* What follows the return of a task's _checkDomain.
resume(rm, tm, task, date) ==
    IF task.kind = "flush"
    THEN flushLoop(rm, tm, task.todo, date, task.sent)
    ELSE [rm |-> rm, tasks |-> {}, domain |-> "", decision |-> "none", remains |-> False]

\* The end of _checkDomain, once tabs.query has resolved with tabsResult.
\* The warning of an allowed domain: the first threshold remains is under.
\* (variant: the thresholds are compared with <=)
warningInclusive(domain, remains) ==
    IF remains <= ONE_MINUTE_MS
    THEN <<[message |-> <<"Less than one minute left for ", domain, "!">>, progress |-> 20]>>
    ELSE IF remains <= TWO_MINUTES_MS
    THEN <<[message |-> <<"Less than two minute left for ", domain, "!">>, progress |-> 40]>>
    ELSE IF remains <= THREE_MINUTES_MS
    THEN <<[message |-> <<"Less than three minute left for ", domain, "!">>, progress |-> 60]>>
    ELSE IF remains <= FOUR_MINUTES_MS
    THEN <<[message |-> <<"Less than four minute left for ", domain, "!">>, progress |-> 80]>>
    ELSE IF remains <= FIVE_MINUTES_MS
    THEN <<[message |-> <<"Less than two minute left for ", domain, "!">>, progress |-> 100]>>
    ELSE <<>>

warning(domain, remains) ==
    IF remains < ONE_MINUTE_MS
    THEN <<[message |-> <<"Less than one minute left for ", domain, "!">>, progress |-> 20]>>
    ELSE IF remains < TWO_MINUTES_MS
    THEN <<[message |-> <<"Less than two minute left for ", domain, "!">>, progress |-> 40]>>
    ELSE IF remains < THREE_MINUTES_MS
    THEN <<[message |-> <<"Less than three minute left for ", domain, "!">>, progress |-> 60]>>
    ELSE IF remains < FOUR_MINUTES_MS
    THEN <<[message |-> <<"Less than four minute left for ", domain, "!">>, progress |-> 80]>>
    ELSE IF remains < FIVE_MINUTES_MS
    THEN <<[message |-> <<"Less than two minute left for ", domain, "!">>, progress |-> 100]>>
    ELSE <<>>

\* What a completed _checkDomain did: the tabs it saw, the tabs it sent to
\* about:blank (tabs.update) and the notifications it created.
NoDone == [domain |-> "", decision |-> "none", remains |-> False, tabs |-> <<>>,
           blanked |-> {}, notifications |-> <<>>]

\* (variant: the warning does not look at the tabs)
endCheckWarningWithoutTabs(task, tabsResult) ==
    [domain |-> task.domain, decision |-> IF task.pc = "tabsForbidden" THEN "FORBIDDEN" ELSE "ALLOWED",
     remains |-> task.remains, tabs |-> tabsResult,
     blanked |-> IF task.pc = "tabsForbidden"
                 THEN {tabsResult[k].id : k \in 1..Len(tabsResult)}
                 ELSE {},
     notifications |-> IF task.pc = "tabsForbidden"
                       THEN <<>>
                       ELSE warning(task.domain, task.remains.value)]

\* (variant: the tabs of a forbidden domain are left alone)
endCheckKeepingTabs(task, tabsResult) ==
    [domain |-> task.domain, decision |-> IF task.pc = "tabsForbidden" THEN "FORBIDDEN" ELSE "ALLOWED",
     remains |-> task.remains, tabs |-> tabsResult, blanked |-> {},
     notifications |-> IF task.pc = "tabsForbidden" \/ Len(tabsResult) = 0
                       THEN <<>>
                       ELSE warning(task.domain, task.remains.value)]

endCheck(task, tabsResult) ==
    IF task.pc = "tabsForbidden"
    THEN [domain |-> task.domain, decision |-> "FORBIDDEN", remains |-> task.remains,
          tabs |-> tabsResult,
          blanked |-> {tabsResult[k].id : k \in {n \in 1..Len(tabsResult) : tabsResult[n].id # 0}},
          notifications |-> <<>>]
    ELSE [domain |-> task.domain, decision |-> "ALLOWED", remains |-> task.remains,
          tabs |-> tabsResult, blanked |-> {},
          notifications |-> IF Len(tabsResult) = 0
                            THEN <<>>
                            ELSE warning(task.domain, task.remains.value)]

\* ------------------------------------------------------------------------
\* ConfigManager.  A config is a Map domain -> Interval[]: a sequence of
\* [domain, intervals] in insertion order.
configKeys(config) == [k \in 1..Len(config) |-> config[k].domain]
configGet(config, domain) ==
    IF \E k \in 1..Len(config) : config[k].domain = domain
    THEN config[CHOOSE k \in 1..Len(config) : config[k].domain = domain].intervals
    ELSE <<>>

\* The conversion of _fetch: one new Interval per {start, end} of the payload.
\* gen numbers the fetch, so that <<gen, k, j>> is the identity of the object.
fetchConfig(json, gen) ==
    LET bad == \E k \in 1..Len(json) : \E j \in 1..Len(json[k].intervals) :
                   \/ hhmmToDate(json[k].intervals[j].start).threw
                   \/ hhmmToDate(json[k].intervals[j].end).threw
    IN IF bad
       THEN [threw |-> TRUE, config |-> <<>>]
       ELSE [threw |-> FALSE,
             config |-> [k \in 1..Len(json) |->
                           [domain |-> json[k].domain,
                            intervals |-> [j \in 1..Len(json[k].intervals) |->
                                [start |-> hhmmToDate(json[k].intervals[j].start).date,
                                 end |-> hhmmToDate(json[k].intervals[j].end).date,
                                 id |-> <<gen, k, j>>]]]]]

\* for (let interval of after) if (!before.has(interval)) addInterval
\* (variant: before.has compares the start and end of the intervals)
RECURSIVE addNewComparingTimes(_, _, _, _)
addNewComparingTimes(s, domain, after, before) ==
    IF after = <<>> \/ s.threw
    THEN s
    ELSE addNewComparingTimes(
             IF \E k \in 1..Len(before) : /\ before[k].start = Head(after).start
                                          /\ before[k].end = Head(after).end
             THEN s
             ELSE addInterval(s, domain, Head(after)),
             domain, Tail(after), before)

RECURSIVE addNew(_, _, _, _)
addNew(s, domain, after, before) ==
    IF after = <<>> \/ s.threw
    THEN s
    ELSE addNew(IF SeqHas(before, Head(after)) THEN s ELSE addInterval(s, domain, Head(after)),
                domain, Tail(after), before)

\* for (let interval of before) if (!after.has(interval)) removeInterval
RECURSIVE removeOld(_, _, _, _)
removeOld(s, domain, before, after) ==
    IF before = <<>> \/ s.threw
    THEN s
    ELSE removeOld(IF SeqHas(after, Head(before)) THEN s ELSE removeInterval(s, domain, Head(before)),
                   domain, Tail(before), after)

\* for (let domain of keys) of _processUpdate
RECURSIVE diffDomains(_, _, _, _)
diffDomains(s, keys, old, config) ==
    IF keys = <<>> \/ s.threw
    THEN s
    ELSE LET domain == Head(keys)
             before == configGet(old, domain)
             after == configGet(config, domain)
             s1 == addNew(s, domain, after, before)
             s2 == removeOld(s1, domain, before, after)
         IN diffDomains(s2, Tail(keys), old, config)

RECURSIVE unionKeys(_, _)
unionKeys(keys, more) ==
    IF more = <<>> THEN keys ELSE unionKeys(SeqAdd(keys, Head(more)), Tail(more))

\* The synchronous part of _processUpdate before timeManager.flush().
_processUpdate(s, old, config) ==
    diffDomains(s, unionKeys(unionKeys(<<>>, configKeys(config)), configKeys(old)), old, config)

\* ------------------------------------------------------------------------
\* State
VARIABLES
    now,                \* the clock (new Date(), Date.now())
    tm,                 \* timeManager
    alarms,             \* browser.alarms: name -> [when, periodInMinutes]
    fired,              \* alarms fired by the browser, not yet handled by _onAlarm
    listening,          \* whether timeManager.init() has added the onAlarm listener
    lateFirings,        \* exit alarm name -> its firings at or after the end of its interval
    rm,                 \* ruleManager
    lastDecision,       \* domain -> the decision of its most recent _checkDomain that decided
    sessionRules,       \* the session rules of browser.declarativeNetRequest
    guard,              \* the tabs.onUpdated listener of ruleManager
    config,             \* configManager._config
    lock,               \* configManager._lock is not null
    shutdownRequested,  \* configManager._shutdownRequested
    suspendCalled,      \* runtime.onSuspend has been dispatched
    fetches,            \* successful fetches so far
    installs,           \* dispatches of runtime.onInstalled so far
    starting,           \* startup handlers waiting in ruleManager.init()
    loops,              \* background loops of configManager.init() at `while`
    fetching,           \* the call of _update that waits for _fetch
    tasks,              \* TimeManager tasks waiting for I/O
    ev,                 \* what the last step did
    probe               \* a call of Interval.contains and its result

vars == <<now, tm, alarms, fired, listening, lateFirings, rm, lastDecision, sessionRules, guard, config, lock,
          shutdownRequested, suspendCalled, fetches, installs, starting, loops, fetching, tasks,
          ev, probe>>

tmVars == <<tm, alarms, fired, listening, lateFirings>>
rmVars == <<rm, sessionRules, guard, lastDecision>>
cmVars == <<config, lock, shutdownRequested, suspendCalled, fetches, fetching>>
flowVars == <<installs, starting, loops>>

NoProbe == [interval |-> [start |-> 0, end |-> 0, id |-> <<>>], date |-> 0, called |-> FALSE,
            result |-> False]
NoFetch == [active |-> FALSE, immediate |-> FALSE]
NoGuard == [installed |-> FALSE, urls |-> {}]

\* ev: op names the step; domain, decision and remains describe the
\* _checkDomain it started (if any); calls and before describe a config diff;
\* done describes the _checkDomain it completed (if any).
Event(op, domain, decision, remains, calls, before) ==
    [op |-> op, domain |-> domain, decision |-> decision, remains |-> remains,
     calls |-> calls, before |-> before, done |-> NoDone]
Ev(op) == Event(op, "", "none", False, <<>>, <<>>)

\* lastDecision after a step that ran _checkDomain on domain up to its await,
\* with the given decision ("none": no _checkDomain went past line 114).
decided(last, domain, decision) ==
    IF decision = "none" THEN last ELSE MapSet(last, domain, decision)

\* The session rules found at startup: none, or one left by a previous run.
InitialRules == {<<>>, <<BlockRule(3, "a.com")>>}

\* The state when the script has been loaded.
Loaded ==
    /\ tm = NewTimeManager
    /\ alarms = EmptyMap
    /\ fired = {}
    /\ lateFirings = EmptyMap
    /\ lastDecision = EmptyMap
    /\ rm = NewRuleManager
    /\ sessionRules \in InitialRules
    /\ guard = NoGuard
    /\ config = <<>>
    /\ lock = FALSE
    /\ shutdownRequested = FALSE
    /\ suspendCalled = FALSE
    /\ fetches = 0
    /\ installs = 0
    /\ starting = 0
    /\ loops = 0
    /\ fetching = NoFetch
    /\ tasks = {}
    /\ ev = Ev("none")

\* The script as it is: nothing calls timeManager.init(), alarms.onAlarm has no
\* listener.  The script is loaded at any time of the day.
Init ==
    /\ Loaded /\ probe = NoProbe
    /\ now \in Instants
    /\ listening = FALSE

\* The script with timeManager.init() called when it is loaded, at midnight.
InitAlarms ==
    /\ Loaded /\ probe = NoProbe
    /\ now = 0
    /\ listening = TRUE

\* ------------------------------------------------------------------------
\* The environment

\* Time passes.
Tick ==
    /\ UNCHANGED probe
    /\ \E t \in Instants :
          /\ t > now
          /\ \A u \in Instants : u > now => t <= u
          /\ now' = t
          /\ alarms' = alarmsDue(alarms, t)
    /\ ev' = Ev("none")
    /\ UNCHANGED <<tm, fired, listening, lateFirings, rmVars, cmVars, flowVars, tasks>>

\* The browser fires an alarm that is due: a one-shot alarm is gone, a periodic
\* one is scheduled again; the event is queued for the onAlarm listener, if
\* there is one.  lateFirings counts the firings of an exit alarm at or after
\* the end of the interval of its authorization.
AlarmFire(name) ==
    /\ UNCHANGED probe
    /\ MapHas(alarms, name)
    /\ alarms[name].when <= now
    /\ fired = {}
    /\ alarms' = IF alarms[name].periodInMinutes = 0
                 THEN alarmsClear(alarms, name)
                 ELSE alarmsCreate(alarms, name,
                                   [alarms[name] EXCEPT !.when = now + alarms[name].periodInMinutes * ONE_MINUTE_MS])
    /\ fired' = IF listening THEN fired \cup {name} ELSE fired
    /\ lateFirings' = IF /\ MapHas(tm.authorizationsByAlarmKeyExit, name)
                          /\ tm.authorizationsByAlarmKeyExit[name].interval.end <= now
                       THEN MapSet(lateFirings, name,
                                   IF MapHas(lateFirings, name) THEN lateFirings[name] + 1 ELSE 1)
                       ELSE lateFirings
    /\ ev' = Ev("none")
    /\ UNCHANGED <<now, tm, listening, rmVars, cmVars, flowVars, tasks>>

\* runtime.onSuspend: configManager.suspend().
Suspend ==
    /\ UNCHANGED probe
    /\ shutdownRequested' = TRUE
    /\ suspendCalled' = TRUE
    /\ ev' = Ev("suspend")
    /\ UNCHANGED <<now, tmVars, rmVars, config, lock, fetches, fetching, flowVars, tasks>>

\* ------------------------------------------------------------------------
\* Startup: runtime.onInstalled calls ruleManager.init(), which waits for
\* getSessionRules() in _fetchSessionRules.
OnInstalled ==
    /\ UNCHANGED probe
    /\ installs < MaxInstalls
    /\ installs' = installs + 1
    /\ starting' = starting + 1
    /\ ev' = Ev("none")
    /\ UNCHANGED <<now, tmVars, rmVars, cmVars, loops, tasks>>

\* ConfigManager._update up to `await this._lock`, on [lock, fetching];
\* started says whether a fetch was started.
\* (variant: the lock is not looked at)
updateIgnoringLock(c, immediate) ==
    [lock |-> TRUE, fetching |-> [active |-> TRUE, immediate |-> immediate], started |-> TRUE]

update(c, immediate) ==
    IF c.lock
    THEN [lock |-> c.lock, fetching |-> c.fetching, started |-> FALSE]
    ELSE [lock |-> TRUE, fetching |-> [active |-> TRUE, immediate |-> immediate], started |-> TRUE]

\* getSessionRules() resolves: the rest of ruleManager.init(), then
\* configManager.init() up to the await in its first _update, or, if that
\* _update returns at once, up to the first await of the background loop.
RuleManagerInit ==
    /\ UNCHANGED probe
    /\ starting > 0
    /\ LET g == urlFilters([rm |-> [setCurrentRules(rm, sessionRules)
                                       EXCEPT !.counter = seedCounter(rm.counter, sessionRules)],
                            guard |-> guard])
           u == update([lock |-> lock, fetching |-> fetching], TRUE)
       IN /\ rm' = g.rm
          /\ guard' = g.guard
          /\ shutdownRequested' = FALSE
          /\ UNCHANGED suspendCalled
          /\ lock' = u.lock
          /\ fetching' = u.fetching
          /\ loops' = IF u.started THEN loops ELSE loops + 1
          /\ ev' = Ev(IF lock THEN "updateWhileLocked" ELSE "none")
    /\ starting' = starting - 1
    /\ UNCHANGED <<now, tmVars, sessionRules, lastDecision, config, fetches, installs, tasks>>

\* ------------------------------------------------------------------------
\* The background loop of ConfigManager.init

\* `while (!this._shutdownRequested)` ends the loop.
LoopExit ==
    /\ UNCHANGED probe
    /\ loops > 0
    /\ shutdownRequested
    /\ loops' = loops - 1
    /\ ev' = Ev("none")
    /\ UNCHANGED <<now, tmVars, rmVars, cmVars, installs, starting, tasks>>

\* The loop calls _update().
LoopUpdate ==
    /\ UNCHANGED probe
    /\ loops > 0
    /\ ~shutdownRequested
    /\ LET u == update([lock |-> lock, fetching |-> fetching], FALSE)
       IN /\ lock' = u.lock
          /\ fetching' = u.fetching
          /\ loops' = IF u.started THEN loops - 1 ELSE loops
          /\ ev' = Ev(IF lock THEN "updateWhileLocked" ELSE "none")
    /\ UNCHANGED <<now, tmVars, rmVars, config, shutdownRequested, suspendCalled, fetches, installs, starting, tasks>>

\* _fetch rejects (fetch fails, the response is not ok, an HHMM is malformed):
\* `finally` releases the lock and _update rejects.  The background loop
\* catches the error; init() does not, and its loop is never started.
\* (variant: no `finally`, the lock stays)
FetchErrorKeepingLock ==
    /\ lock' = lock
    /\ fetching' = NoFetch
    /\ loops' = IF fetching.immediate THEN loops ELSE loops + 1

FetchError ==
    /\ lock' = FALSE
    /\ fetching' = NoFetch
    /\ loops' = IF fetching.immediate THEN loops ELSE loops + 1

FetchFail ==
    /\ UNCHANGED probe
    /\ fetching.active
    /\ FetchError
    /\ ev' = Ev("fetchFailed")
    /\ UNCHANGED <<now, tmVars, rmVars, config, shutdownRequested, suspendCalled, fetches, installs, starting, tasks>>

\* _fetch resolves with the payload json: _update releases the lock and calls
\* _processUpdate, which diffs the configs, stores the new one and starts
\* timeManager.flush() without waiting for it; then _update returns.
FetchDone(json) ==
    /\ UNCHANGED probe
    /\ fetching.active
    /\ LET f == fetchConfig(json, fetches + 1)
       IN IF f.threw
          THEN /\ FetchError
               /\ ev' = Ev("parseFailed")
               /\ UNCHANGED <<now, tmVars, rmVars, config, shutdownRequested, suspendCalled, fetches, installs,
                              starting, tasks>>
          ELSE /\ fetches < MaxFetches
               /\ Cardinality(tasks) < MaxTasks
               /\ fetches' = fetches + 1
               /\ LET s == _processUpdate([tm |-> tm, alarms |-> alarms, calls |-> <<>>, threw |-> FALSE],
                                          config, f.config)
                  IN IF s.threw
                     THEN /\ FetchError
                          /\ tm' = s.tm
                          /\ alarms' = alarmsDue(s.alarms, now)
                          /\ ev' = Event("processFailed", "", "none", False, s.calls, config)
                          /\ UNCHANGED <<rm, lastDecision, config, tasks>>
                     ELSE LET r == flushLoop(rm, s.tm, s.tm.domainsToCheck, now, 0)
                          IN /\ lock' = FALSE
                             /\ fetching' = NoFetch
                             /\ loops' = loops + 1
                             /\ config' = f.config
                             /\ tm' = [s.tm EXCEPT !.domainsToCheck = <<>>]
                             /\ alarms' = alarmsDue(s.alarms, now)
                             /\ rm' = r.rm
                             /\ lastDecision' = decided(lastDecision, r.domain, r.decision)
                             /\ tasks' = tasks \cup r.tasks
                             /\ ev' = Event("processUpdate", r.domain, r.decision, r.remains,
                                            s.calls, config)
               /\ UNCHANGED <<now, fired, listening, lateFirings, sessionRules, guard,
                              shutdownRequested, suspendCalled, installs, starting>>

\* ------------------------------------------------------------------------
\* The alarm resolves to no authorization: _onAlarm returns.
\* (variant: an unknown alarm is an error)
alarmUnknownThrows ==
    /\ ev' = Ev("alarmThrew")
    /\ UNCHANGED <<alarms, rm, lastDecision, tasks>>

alarmUnknown ==
    /\ ev' = Ev("alarmIgnored")
    /\ UNCHANGED <<alarms, rm, lastDecision, tasks>>

\* TimeManager._onAlarm, up to the first await of its _checkDomain.
OnAlarm(name) ==
    /\ UNCHANGED probe
    /\ name \in fired
    /\ fired' = fired \ {name}
    /\ LET isEnter == MapHas(tm.authorizationsByAlarmKeyEnter, name)
           found == isEnter \/ MapHas(tm.authorizationsByAlarmKeyExit, name)
           authorization == IF isEnter
                            THEN tm.authorizationsByAlarmKeyEnter[name]
                            ELSE tm.authorizationsByAlarmKeyExit[name]
       IN IF ~found
          THEN alarmUnknown
          ELSE LET c == _checkDomain(rm, tm, authorization.domain, now)
               IN /\ Cardinality(tasks) < MaxTasks
                  /\ alarms' = IF isEnter \/ authorization.interval.end <= now
                               THEN alarmsClear(alarms, name)
                               ELSE alarms
                  /\ rm' = c.rm
                  /\ lastDecision' = decided(lastDecision, authorization.domain, c.decision)
                  /\ tasks' = IF c.pc = "return"
                              THEN tasks
                              ELSE tasks \cup {Task("alarm", c.pc, authorization.domain, <<>>,
                                                    c.update, c.remains, FALSE, sentAt(c.pc, 0))}
                  /\ ev' = Event("onAlarm", authorization.domain, c.decision, c.remains, <<>>, <<>>)
    /\ UNCHANGED <<now, tm, listening, lateFirings, sessionRules, guard, cmVars, flowVars>>

\* ------------------------------------------------------------------------
\* Continuations of the tasks

\* tabs.query() resolves: _checkDomain ends (it blanks the tabs of a forbidden
\* domain, or warns about an allowed one) and its caller goes on.
TabsDone(task, tabsResult) ==
    /\ UNCHANGED probe
    /\ task \in tasks
    /\ task.pc \in {"tabsForbidden", "tabsAllowed"}
    /\ LET r == resume(rm, tm, task, now)
       IN /\ rm' = r.rm
          /\ lastDecision' = decided(lastDecision, r.domain, r.decision)
          /\ tasks' = (tasks \ {task}) \cup r.tasks
          /\ ev' = [Event("tabs", r.domain, r.decision, r.remains, <<>>, <<>>)
                        EXCEPT !.done = endCheck(task, tabsResult)]
    /\ UNCHANGED <<now, tmVars, sessionRules, guard, cmVars, flowVars>>

\* updateSessionRules() rejects: RuleManager.flush throws, and so do the
\* _checkDomain and the TimeManager.flush or _onAlarm that wait for it.
UpdateThrows(task) ==
    /\ tasks' = tasks \ {task}
    /\ ev' = Ev("updateFailed")
    /\ UNCHANGED <<now, tmVars, rmVars, cmVars, flowVars>>

UpdateFail(task) ==
    /\ UNCHANGED probe
    /\ task \in tasks
    /\ task.pc = "update"
    /\ UpdateThrows(task)

\* updateSessionRules(update) resolves; flush then waits for getSessionRules().
UpdateDone(task) ==
    /\ UNCHANGED probe
    /\ task \in tasks
    /\ task.pc = "update"
    /\ IF updateRejected(sessionRules, task.update)
       THEN UpdateThrows(task)
       ELSE /\ sessionRules' = updateSessionRules(sessionRules, task.update)
            /\ tasks' = (tasks \ {task}) \cup {[task EXCEPT !.pc = "read"]}
            /\ ev' = Ev("none")
            /\ UNCHANGED <<now, tmVars, rm, guard, lastDecision, cmVars, flowVars>>

\* getSessionRules() resolves: RuleManager.flush stores the rules and returns.
\* In _checkDomain the tabs (tabsResult) and the warning follow and the caller
\* goes on; the flush that ends TimeManager.flush ends the task.
RulesRead(task, tabsResult) ==
    /\ UNCHANGED probe
    /\ task \in tasks
    /\ task.pc = "read"
    /\ task.final => tabsResult = <<>>
    /\ LET rm1 == setCurrentRules(rm, sessionRules)
           r == IF task.final
                THEN [rm |-> rm1, tasks |-> {}, domain |-> "", decision |-> "none", remains |-> False]
                ELSE resume(rm1, tm, task, now)
       IN /\ rm' = r.rm
          /\ lastDecision' = decided(lastDecision, r.domain, r.decision)
          /\ tasks' = (tasks \ {task}) \cup r.tasks
          /\ ev' = [Event(IF task.final THEN "flushed" ELSE "flushedInCheck",
                           r.domain, r.decision, r.remains, <<>>, <<>>)
                        EXCEPT !.done = IF task.final THEN NoDone ELSE endCheck(task, tabsResult)]
    /\ UNCHANGED <<now, tmVars, sessionRules, guard, cmVars, flowVars>>

\* ------------------------------------------------------------------------
AlarmNames == {keyEnter(Authorization(d, i)) : d \in Domains, i \in {[start |-> hhmmToDate(j.start).date, end |-> hhmmToDate(j.end).date] : j \in {JA, JB}}}
                  \cup {keyExit(Authorization(d, i)) : d \in Domains, i \in {[start |-> hhmmToDate(j.start).date, end |-> hhmmToDate(j.end).date] : j \in {JA, JB}}}

\* The script as it is, between startup and suspension.
Next ==
    \/ OnInstalled
    \/ RuleManagerInit
    \/ LoopUpdate
    \/ FetchFail
    \/ \E json \in Payloads : FetchDone(json)
    \/ \E task \in tasks : \E tabsResult \in TabResults : TabsDone(task, tabsResult)
    \/ \E task \in tasks : UpdateFail(task)
    \/ \E task \in tasks : UpdateDone(task)
    \/ \E task \in tasks : \E tabsResult \in TabResults : RulesRead(task, tabsResult)

Spec == Init /\ [][Next]_vars

\* The first refresh of a single startup: the store is built from one payload
\* and timeManager.flush() checks its domain.
NextFirstCycle ==
    \/ (installs = 0 /\ OnInstalled)
    \/ RuleManagerInit
    \/ \E json \in FirstCyclePayloads : (fetches = 0 /\ FetchDone(json))
    \/ \E task \in tasks : \E tabsResult \in TabResults : TabsDone(task, tabsResult)
    \/ \E task \in tasks : UpdateDone(task)
    \/ \E task \in tasks : \E tabsResult \in TabResults : RulesRead(task, tabsResult)

SpecFirstCycle == Init /\ [][NextFirstCycle]_vars

\* The Interval objects handed to direct calls of the TimeManager: two
\* objects for 00:01-00:07, equal but distinct, and one for 00:06-00:08.
UnitIntervals ==
    {[start |-> hhmmToDate(JA.start).date, end |-> hhmmToDate(JA.end).date, id |-> <<0, 0, n>>] :
        n \in 1..2}
    \cup {[start |-> hhmmToDate(JB.start).date, end |-> hhmmToDate(JB.end).date, id |-> <<0, 0, 3>>]}

\* ------------------------------------------------------------------------
\* The TimeManager on its own: after ruleManager.init(), a caller makes up to
\* MaxCalls calls of addInterval / removeInterval, then one call of flush().
\* ev.calls is the log of the calls made so far.
InitTimeManager ==
    /\ tm = NewTimeManager
    /\ alarms = EmptyMap
    /\ fired = {}
    /\ lateFirings = EmptyMap
    /\ lastDecision = EmptyMap
    /\ listening = FALSE
    /\ now \in Instants
    /\ sessionRules \in InitialRules
    /\ LET g == urlFilters([rm |-> [setCurrentRules(NewRuleManager, sessionRules)
                                       EXCEPT !.counter = seedCounter(NewRuleManager.counter, sessionRules)],
                            guard |-> NoGuard])
       IN rm = g.rm /\ guard = g.guard
    /\ config = <<>>
    /\ lock = FALSE
    /\ shutdownRequested = FALSE
    /\ suspendCalled = FALSE
    /\ fetches = 0
    /\ installs = 0
    /\ starting = 0
    /\ loops = 0
    /\ fetching = NoFetch
    /\ tasks = {}
    /\ ev = Ev("none")
    /\ probe = NoProbe

\* The caller is between two calls, before its flush().
Calling ==
    /\ ev.op \in {"none", "addInterval", "removeInterval", "removeIntervalThrew"}
    /\ tasks = {}

AddIntervalCall(domain, interval) ==
    /\ Calling
    /\ Len(ev.calls) < MaxCalls
    /\ LET s == addInterval([tm |-> tm, alarms |-> alarms, calls |-> ev.calls, threw |-> FALSE],
                            domain, interval)
       IN /\ tm' = s.tm
          /\ alarms' = alarmsDue(s.alarms, now)
          /\ ev' = Event("addInterval", "", "none", False, s.calls, <<>>)
    /\ UNCHANGED <<now, fired, listening, lateFirings, rmVars, cmVars, flowVars, tasks, probe>>

RemoveIntervalCall(domain, interval) ==
    /\ Calling
    /\ Len(ev.calls) < MaxCalls
    /\ LET s == removeInterval([tm |-> tm, alarms |-> alarms, calls |-> ev.calls, threw |-> FALSE],
                               domain, interval)
       IN /\ tm' = s.tm
          /\ alarms' = alarmsDue(s.alarms, now)
          /\ ev' = Event(IF s.threw THEN "removeIntervalThrew" ELSE "removeInterval",
                          "", "none", False, s.calls, <<>>)
    /\ UNCHANGED <<now, fired, listening, lateFirings, rmVars, cmVars, flowVars, tasks, probe>>

\* TimeManager.flush() up to its first await of I/O.
FlushCall ==
    /\ Calling
    /\ LET r == flushLoop(rm, tm, tm.domainsToCheck, now, 0)
       IN /\ tm' = [tm EXCEPT !.domainsToCheck = <<>>]
          /\ rm' = r.rm
          /\ lastDecision' = decided(lastDecision, r.domain, r.decision)
          /\ tasks' = r.tasks
          /\ ev' = Event("flush", r.domain, r.decision, r.remains, ev.calls, <<>>)
    /\ UNCHANGED <<now, alarms, fired, listening, lateFirings, sessionRules, guard, cmVars, flowVars, probe>>

NextTimeManager ==
    \/ \E domain \in Domains : \E interval \in UnitIntervals : AddIntervalCall(domain, interval)
    \/ \E domain \in Domains : \E interval \in UnitIntervals : RemoveIntervalCall(domain, interval)
    \/ FlushCall
    \/ \E task \in tasks : \E tabsResult \in TabResults : TabsDone(task, tabsResult)
    \/ \E task \in tasks : UpdateDone(task)
    \/ \E task \in tasks : \E tabsResult \in TabResults : RulesRead(task, tabsResult)

SpecTimeManager == InitTimeManager /\ [][NextTimeManager]_vars

\* The first refresh of a single startup, at the instants of the warnings.
InitWarn ==
    /\ Loaded /\ probe = NoProbe
    /\ now \in WarnInstants
    /\ listening = FALSE

NextWarn ==
    \/ (installs = 0 /\ OnInstalled)
    \/ RuleManagerInit
    \/ \E json \in WarnPayloads : (fetches = 0 /\ FetchDone(json))
    \/ \E task \in tasks : \E tabsResult \in TabResults : TabsDone(task, tabsResult)
    \/ \E task \in tasks : UpdateDone(task)
    \/ \E task \in tasks : \E tabsResult \in TabResults : RulesRead(task, tabsResult)

SpecWarn == InitWarn /\ [][NextWarn]_vars

\* The refresh cycles of the script, with the payloads of LifePayloads.
NextCycles ==
    \/ OnInstalled
    \/ RuleManagerInit
    \/ LoopUpdate
    \/ FetchFail
    \/ \E json \in LifePayloads : FetchDone(json)
    \/ \E task \in tasks : \E tabsResult \in TabResults : TabsDone(task, tabsResult)
    \/ \E task \in tasks : UpdateFail(task)
    \/ \E task \in tasks : UpdateDone(task)
    \/ \E task \in tasks : \E tabsResult \in TabResults : RulesRead(task, tabsResult)

SpecCycles == Init /\ [][NextCycles]_vars

\* The script from startup to suspension: runtime.onSuspend may be dispatched
\* at any time, and the background loops end.
NextLife ==
    \/ OnInstalled
    \/ RuleManagerInit
    \/ Suspend
    \/ LoopExit
    \/ LoopUpdate
    \/ FetchFail
    \/ \E json \in LifePayloads : FetchDone(json)
    \/ \E task \in tasks : \E tabsResult \in TabResults : TabsDone(task, tabsResult)
    \/ \E task \in tasks : UpdateFail(task)
    \/ \E task \in tasks : UpdateDone(task)
    \/ \E task \in tasks : \E tabsResult \in TabResults : RulesRead(task, tabsResult)

SpecLife == Init /\ [][NextLife]_vars

\* A single startup, with the alarms and the clock.
NextAlarms ==
    \/ Tick
    \/ \E name \in AlarmNames : AlarmFire(name)
    \/ \E name \in AlarmNames : OnAlarm(name)
    \/ (installs = 0 /\ OnInstalled)
    \/ RuleManagerInit
    \/ LoopUpdate
    \/ FetchFail
    \/ \E json \in Payloads : FetchDone(json)
    \/ \E task \in tasks : \E tabsResult \in TabResults : TabsDone(task, tabsResult)
    \/ \E task \in tasks : UpdateFail(task)
    \/ \E task \in tasks : UpdateDone(task)
    \/ \E task \in tasks : \E tabsResult \in TabResults : RulesRead(task, tabsResult)

SpecAlarms == InitAlarms /\ [][NextAlarms]_vars

\* ------------------------------------------------------------------------
\* The TimeManager and its alarms on their own: at midnight, after
\* ruleManager.init(), addInterval("a.com", ...) has been called for a list
\* of 1..MaxIntervals intervals; then the clock runs, the alarms fire,
\* _onAlarm is called with each alarm fired, and a caller removes intervals.
TimerLists == UNION {[1..n -> UnitIntervals] : n \in 1..MaxIntervals}

InitTimers ==
    /\ now = 0
    /\ fired = {}
    /\ lateFirings = EmptyMap
    /\ lastDecision = EmptyMap
    /\ listening = TRUE
    /\ \E list \in TimerLists :
          LET s == addNew([tm |-> NewTimeManager, alarms |-> EmptyMap, calls |-> <<>>, threw |-> FALSE],
                          "a.com", list, <<>>)
          IN tm = s.tm /\ alarms = alarmsDue(s.alarms, now)
    /\ sessionRules \in InitialRules
    /\ LET g == urlFilters([rm |-> [setCurrentRules(NewRuleManager, sessionRules)
                                       EXCEPT !.counter = seedCounter(NewRuleManager.counter, sessionRules)],
                            guard |-> NoGuard])
       IN rm = g.rm /\ guard = g.guard
    /\ config = <<>>
    /\ lock = FALSE
    /\ shutdownRequested = FALSE
    /\ suspendCalled = FALSE
    /\ fetches = 0
    /\ installs = 0
    /\ starting = 0
    /\ loops = 0
    /\ fetching = NoFetch
    /\ tasks = {}
    /\ ev = Ev("none")
    /\ probe = NoProbe

NextTimers ==
    \/ \E interval \in UnitIntervals : RemoveIntervalCall("a.com", interval)
    \/ Tick
    \/ \E name \in DOMAIN alarms : AlarmFire(name)
    \/ \E name \in fired : OnAlarm(name)
    \/ \E task \in tasks : \E tabsResult \in TabResults : TabsDone(task, tabsResult)
    \/ \E task \in tasks : UpdateDone(task)
    \/ \E task \in tasks : \E tabsResult \in TabResults : RulesRead(task, tabsResult)

SpecTimers == InitTimers /\ [][NextTimers]_vars

\* The script as it is, with its clock and its alarms: a single startup and
\* its first refresh, then time passes and the alarms fire.
ClockPayloads ==
    { << [domain |-> "a.com", intervals |-> <<JA>>] >>,
      << [domain |-> "a.com", intervals |-> <<[start |-> H0001, end |-> H0006]>>] >> }

NextClock ==
    \/ (installs = 0 /\ OnInstalled)
    \/ RuleManagerInit
    \/ \E json \in ClockPayloads : (fetches = 0 /\ FetchDone(json))
    \/ Tick
    \/ \E name \in DOMAIN alarms : AlarmFire(name)
    \/ \E task \in tasks : \E tabsResult \in TabResults : TabsDone(task, tabsResult)
    \/ \E task \in tasks : UpdateDone(task)
    \/ \E task \in tasks : \E tabsResult \in TabResults : RulesRead(task, tabsResult)

SpecClock == Init /\ [][NextClock]_vars

\* The refresh cycles that forbid b.com, which has no rule at startup.
RuleIdPayloads == { << [domain |-> "b.com", intervals |-> <<JB>>] >> }

NextRuleIds ==
    \/ OnInstalled
    \/ RuleManagerInit
    \/ LoopUpdate
    \/ \E json \in RuleIdPayloads : FetchDone(json)
    \/ \E task \in tasks : \E tabsResult \in TabResults : TabsDone(task, tabsResult)
    \/ \E task \in tasks : UpdateDone(task)
    \/ \E task \in tasks : \E tabsResult \in TabResults : RulesRead(task, tabsResult)

SpecRuleIds == Init /\ [][NextRuleIds]_vars

\* ------------------------------------------------------------------------
\* Interval.contains on its own: any start, end and date up to ProbeMax.
ProbeMax == 5

InitContains ==
    /\ Loaded
    /\ now = 0
    /\ listening = FALSE
    /\ probe \in {[interval |-> [start |-> a, end |-> b, id |-> <<>>], date |-> t,
                   called |-> FALSE, result |-> False] :
                      a \in 0..ProbeMax, b \in 0..ProbeMax, t \in 0..ProbeMax}

CallContains ==
    /\ ~probe.called
    /\ probe' = [probe EXCEPT !.called = TRUE, !.result = contains(probe.interval, probe.date)]
    /\ UNCHANGED <<now, tmVars, rmVars, cmVars, flowVars, tasks, ev>>

NextContains == CallContains

SpecContains == InitContains /\ [][NextContains]_vars

\* ------------------------------------------------------------------------
\* Two refreshes of a single startup while time passes, without I/O failure:
\* the first receives a.com with two intervals, the second the same payload
\* or one of the two intervals alone.
RefreshFirst == << [domain |-> "a.com", intervals |-> <<JA, JB>>] >>
RefreshSecond ==
    { RefreshFirst,
      << [domain |-> "a.com", intervals |-> <<JA>>] >>,
      << [domain |-> "a.com", intervals |-> <<JB>>] >> }

NextRefresh ==
    \/ (installs = 0 /\ OnInstalled)
    \/ RuleManagerInit
    \/ LoopUpdate
    \/ (fetches = 0 /\ FetchDone(RefreshFirst))
    \/ \E json \in RefreshSecond : (fetches = 1 /\ FetchDone(json))
    \/ Tick
    \/ \E task \in tasks : \E tabsResult \in TabResults : TabsDone(task, tabsResult)
    \/ \E task \in tasks : UpdateDone(task)
    \/ \E task \in tasks : \E tabsResult \in TabResults : RulesRead(task, tabsResult)

SpecRefresh == Init /\ [][NextRefresh]_vars

\* ------------------------------------------------------------------------
\* Vocabulary of the properties

\* The domain a block rule of the rule store applies to.
RuleDomain(rule) == rule.urlFilter[2]
BlockedDomains(rules) == {RuleDomain(rules[k]) : k \in 1..Len(rules)}

\* (domain, start, end) of the intervals of a config, and of logged calls.
ConfigPairs(c) ==
    UNION {{<<c[k].domain, i.start, i.end>> : i \in Range(c[k].intervals)} : k \in 1..Len(c)}
CallPairs(calls, op) ==
    {<<calls[k].domain, calls[k].interval.start, calls[k].interval.end>> :
        k \in {n \in 1..Len(calls) : calls[n].op = op}}

\* The intervals of the store for a domain that contain the instant date.
LiveContaining(domain, date) ==
    {i \in Range(tm.authorizationsByDomain[domain]) : i.start <= date /\ date < i.end}

\* A TimeManager.flush started by _processUpdate has not completed.
FlushInFlight == \E task \in tasks : task.kind = "flush"

\* ------------------------------------------------------------------------
\* C1: a _checkDomain on a domain of the store decides ALLOWED if and only if
\* one of the live intervals of the domain contains the current instant, and
\* FORBIDDEN otherwise, whatever the order of the intervals in the store.
C1_DecisionIsSomeIntervalContainsNow ==
    ev.decision # "none" =>
        /\ MapHas(tm.authorizationsByDomain, ev.domain)
        /\ ev.decision = "ALLOWED" <=> LiveContaining(ev.domain, now) # {}
        /\ ev.decision = "FORBIDDEN" <=> LiveContaining(ev.domain, now) = {}

\* C1 witness: ALLOWED was decided with two overlapping live intervals, the
\* first of the store ending later than the second.
C1_Witness ==
    /\ ev.decision = "ALLOWED"
    /\ Cardinality(LiveContaining(ev.domain, now)) = 2
    /\ tm.authorizationsByDomain[ev.domain][1].end > tm.authorizationsByDomain[ev.domain][2].end

\* C2 (as claimed): the rule store never holds two block rules for a domain.
C2_OneBlockRulePerDomain ==
    \A i, j \in 1..Len(sessionRules) :
        RuleDomain(sessionRules[i]) = RuleDomain(sessionRules[j]) => i = j

\* C3 (as claimed): once a config has been stored and its flush has completed,
\* no domain absent from the stored config has a block rule in the rule store.
C3_UnmentionedDomainPermitted ==
    (fetches > 0 /\ ~FlushInFlight /\ ~fetching.active) =>
        \A d \in Domains :
            ~SeqHas(configKeys(config), d) => d \notin BlockedDomains(sessionRules)

\* C4: for start < end, contains(t) is end - t, a positive number, when
\* start <= t < end, and false for any other t (t = end included).
C4_Contains ==
    (probe.called /\ probe.interval.start < probe.interval.end) =>
        IF probe.interval.start <= probe.date /\ probe.date < probe.interval.end
        THEN /\ probe.result = Number(probe.interval.end - probe.date)
             /\ probe.result.value > 0
        ELSE probe.result = False

\* C4 witness: contains was called with the date equal to end, start < end.
C4_Witness ==
    /\ probe.called
    /\ probe.interval.start < probe.interval.end
    /\ probe.date = probe.interval.end
    /\ probe.result = False

\* C5 (as claimed): forbidDomain calls for one domain with no flush in between
\* leave one block rule for it in the queue of additions.
C5_ForbidQueuesOneAddition ==
    \A i, j \in 1..Len(rm.addRules) :
        RuleDomain(rm.addRules[i]) = RuleDomain(rm.addRules[j]) => i = j

\* C6 (as claimed): when the RuleManager.flush that ends a TimeManager.flush
\* completes, the domains of the cache are the blocked domains of the rule
\* store and both queues are empty.
C6_FlushRoundTrip ==
    ev.op = "flushed" =>
        /\ DOMAIN rm.currentRulesByDomain = BlockedDomains(sessionRules)
        /\ rm.addRules = <<>>
        /\ rm.removeRuleIds = <<>>

\* C7 (as claimed): a config diff calls addInterval for the pairs of after \
\* before and removeInterval for those of before \ after, and for no other.
C7_DiffIsSymmetricDifference ==
    ev.op = "processUpdate" =>
        /\ CallPairs(ev.calls, "addInterval") = ConfigPairs(config) \ ConfigPairs(ev.before)
        /\ CallPairs(ev.calls, "removeInterval") = ConfigPairs(ev.before) \ ConfigPairs(config)

\* C8 (as claimed): after a refresh, an interval of both configs has received
\* no call, and its two alarms are registered and resolve to an authorization
\* of the store.
C8_RepeatedIntervalUntouched ==
    ev.op = "processUpdate" =>
        \A p \in ConfigPairs(config) \cap ConfigPairs(ev.before) :
            LET a == Authorization(p[1], [start |-> p[2], end |-> p[3]])
            IN /\ p \notin CallPairs(ev.calls, "addInterval")
               /\ p \notin CallPairs(ev.calls, "removeInterval")
               /\ MapHas(alarms, keyEnter(a)) /\ MapHas(alarms, keyExit(a))
               /\ MapHas(tm.authorizationsByAlarmKeyEnter, keyEnter(a))
               /\ MapHas(tm.authorizationsByAlarmKeyExit, keyExit(a))

\* C9 (as claimed): no fetch is in flight while the flush of a cycle is.
C9_OneCycleInFlight == ~(fetching.active /\ FlushInFlight)

\* C10: a call of _update made while the lock is held changes neither the
\* stored config, the store of authorizations, the alarms, the queues of rules
\* nor the fetch in flight, and its caller goes on.
C10_UpdateWhileLockedIsNoOp ==
    [][ev'.op = "updateWhileLocked" =>
          /\ config' = config
          /\ tm' = tm
          /\ alarms' = alarms
          /\ rm'.addRules = rm.addRules
          /\ rm'.removeRuleIds = rm.removeRuleIds
          /\ lock' /\ lock
          /\ fetching' = fetching
          /\ fetches' = fetches
          /\ tasks' = tasks
          /\ installs' + loops' >= installs + loops]_vars

\* C10 witness: _update has just been called while a fetch was in flight.
C10_Witness == ev.op = "updateWhileLocked" /\ fetching.active /\ lock

\* ------------------------------------------------------------------------
\* C11 (as claimed): with a single startup whose first fetch was the only
\* successful one, no flush of that first cycle is still in flight once the
\* background loop has started a fetch: init() completed the whole cycle first.
C11_FirstCycleFlushedBeforeLoop ==
    (installs = 1 /\ fetches = 1 /\ fetching.active /\ ~fetching.immediate) => ~FlushInFlight

\* C12 (as claimed): after a failed fetch, unless shutdown was requested, some
\* flow of the script will attempt another fetch: a fetch is in flight, a
\* background loop is at the top of an iteration, or a startup is pending.
C12_FailedFetchIsRetried ==
    (ev.op \in {"fetchFailed", "parseFailed"} /\ ~shutdownRequested)
        => (fetching.active \/ loops > 0 \/ starting > 0)

\* C13: a step in which a fetch fails (network or HTTP error, malformed HHMM)
\* leaves the stored config, the authorization store with its lookup tables
\* and dirty set, the alarms, the rule manager with its queues, the rule store
\* and the pending flushes as they were, issues no addInterval / removeInterval,
\* and releases the lock.
C13_FailedFetchChangesNothing ==
    [][ev'.op \in {"fetchFailed", "parseFailed"} =>
          /\ config' = config
          /\ tm' = tm
          /\ alarms' = alarms
          /\ rm' = rm
          /\ sessionRules' = sessionRules
          /\ tasks' = tasks
          /\ ev'.calls = <<>>
          /\ lock
          /\ ~lock'
          /\ ~fetching'.active]_vars

\* C13 witness: a payload with a malformed HHMM was rejected while a config
\* with registered alarms was in place.
C13_Witness ==
    /\ ev.op = "parseFailed"
    /\ config # <<>>
    /\ alarms # EmptyMap
    /\ ~lock

\* C14 (as claimed): once runtime.onSuspend has called suspend(), no background
\* loop starts a fetch again: a loop that reaches the top of an iteration ends.
\* (A fetch in flight at suspend() is left alone: Suspend changes neither the
\* lock nor the fetch, and FetchDone processes its result.)
C14_NoLoopFetchAfterSuspend ==
    [][suspendCalled => ~(~fetching.active /\ fetching'.active /\ ~fetching'.immediate)]_vars

\* C15 (as claimed): the TimeManager.flush of a config refresh issues at most
\* one updateSessionRules call, whatever the domains it checks.
C15_OneRuleStoreUpdatePerRefresh ==
    \A task \in tasks : task.kind = "flush" => task.sent <= 1

OneMinuteLeft ==
    /\ now = (8 * 60 + 59) * ONE_MINUTE_MS
    /\ ev.done.domain = "a.com"
    /\ ev.done.decision = "ALLOWED"
    /\ Len(ev.done.tabs) > 0
    /\ Len(tm.authorizationsByDomain["a.com"]) = 1
    /\ tm.authorizationsByDomain["a.com"][1].start = 8 * 60 * ONE_MINUTE_MS
    /\ tm.authorizationsByDomain["a.com"][1].end = 9 * 60 * ONE_MINUTE_MS

\* C18 (as claimed): in that case a notification of progress 20 is created.
C18_OneMinuteLeftIsTwenty ==
    OneMinuteLeft =>
        /\ Len(ev.done.notifications) = 1
        /\ ev.done.notifications[1].progress = 20

\* C18 (amended): in that case exactly one minute is left, which is not less
\* than one minute: the notification created has progress 40.
C18_OneMinuteLeftIsForty ==
    OneMinuteLeft =>
        /\ ev.done.remains.value = ONE_MINUTE_MS
        /\ Len(ev.done.notifications) = 1
        /\ ev.done.notifications[1].progress = 40

\* C18 witness: the case happens.
C18_Witness ==
    /\ OneMinuteLeft
    /\ ev.done.notifications # <<>>

\* C19: a _checkDomain that decided FORBIDDEN sends every tab that tabs.query
\* found on the domain to about:blank and creates no notification; one that
\* decided ALLOWED sends no tab to about:blank.
C19_ForbiddenTerminatesAllowedDoesNot ==
    /\ ev.done.decision = "FORBIDDEN" =>
          /\ ev.done.blanked = {ev.done.tabs[k].id : k \in 1..Len(ev.done.tabs)}
          /\ ev.done.notifications = <<>>
    /\ ev.done.decision = "ALLOWED" => ev.done.blanked = {}

\* C19 witness: a forbidden domain with two tabs, both sent to about:blank.
C19_Witness ==
    /\ ev.done.decision = "FORBIDDEN"
    /\ Len(ev.done.tabs) = 2
    /\ ev.done.blanked = {1, 2}

\* ------------------------------------------------------------------------
\* The calls made so far end with addInterval(d, i), removeInterval(d, i), with
\* the same d and the same object i, no call before them was about d, and
\* flush() followed.
AddRemoveFlush ==
    /\ ev.op = "flush"
    /\ Len(ev.calls) >= 2
    /\ ev.calls[Len(ev.calls) - 1].op = "addInterval"
    /\ ev.calls[Len(ev.calls)].op = "removeInterval"
    /\ ev.calls[Len(ev.calls) - 1].domain = ev.calls[Len(ev.calls)].domain
    /\ ev.calls[Len(ev.calls) - 1].interval = ev.calls[Len(ev.calls)].interval
    /\ \A k \in 1..(Len(ev.calls) - 2) : ev.calls[k].domain # ev.calls[Len(ev.calls)].domain

\* C16: after addInterval(d, i), removeInterval(d, i) and flush(), the store
\* has no entry for d and no alarm and no lookup entry of (d, i) is left; when
\* these are the only calls made on a new TimeManager, the whole TimeManager
\* and the alarms are as new, the rule queues are empty, and the flush has
\* sent nothing to the rule store nor left anything waiting.
C16_AddRemoveFlushIsNoOp ==
    AddRemoveFlush =>
        LET call == ev.calls[Len(ev.calls)]
            a == Authorization(call.domain, call.interval)
        IN /\ ~MapHas(tm.authorizationsByDomain, a.domain)
           /\ ~MapHas(tm.authorizationsByAlarmKeyEnter, keyEnter(a))
           /\ ~MapHas(tm.authorizationsByAlarmKeyExit, keyExit(a))
           /\ ~MapHas(alarms, keyEnter(a))
           /\ ~MapHas(alarms, keyExit(a))
           /\ tm.domainsToCheck = <<>>
           /\ Len(ev.calls) = 2 =>
                 /\ tm = NewTimeManager
                 /\ alarms = EmptyMap
                 /\ rm.addRules = <<>>
                 /\ rm.removeRuleIds = <<>>
                 /\ tasks = {}
                 /\ ev.decision = "none"

\* C16 witness: the three calls were made on a domain that has a block rule.
C16_Witness ==
    /\ AddRemoveFlush
    /\ Len(ev.calls) = 2
    /\ ev.calls[1].domain \in BlockedDomains(sessionRules)

\* C20: a call removeInterval(d, i) for a pair that is not in the store throws
\* and leaves the store, both lookup tables, the dirty set (all in tm) and the
\* alarms as they were.
C20_RemoveUnknownThrowsAndChangesNothing ==
    [][(/\ ev'.op \in {"removeInterval", "removeIntervalThrew"}
        /\ LET call == ev'.calls[Len(ev'.calls)]
           IN \/ ~MapHas(tm.authorizationsByDomain, call.domain)
              \/ ~SeqHas(tm.authorizationsByDomain[call.domain], call.interval))
       => (ev'.op = "removeIntervalThrew" /\ tm' = tm /\ alarms' = alarms)]_vars

\* C20 witness: removeInterval threw for an object that is not in the store
\* while an equal interval (another object) of the same domain is.
C20_Witness ==
    /\ ev.op = "removeIntervalThrew"
    /\ LET call == ev.calls[Len(ev.calls)]
       IN /\ MapHas(tm.authorizationsByDomain, call.domain)
          /\ \E i \in Range(tm.authorizationsByDomain[call.domain]) :
                 i.start = call.interval.start /\ i.end = call.interval.end
          /\ MapHas(alarms, keyExit(Authorization(call.domain, call.interval)))

\* ------------------------------------------------------------------------
\* The authorization of the last call logged in ev.
LastCallAuthorization ==
    Authorization(ev.calls[Len(ev.calls)].domain, ev.calls[Len(ev.calls)].interval)

\* C21: after a removeInterval(d, i) that did not throw, neither the enter key
\* nor the exit key of (d, i) is in the lookup tables or registered as an
\* alarm, whether or not one of the alarms had fired before.
C21_RemovedAuthorizationHasNoTimer ==
    ev.op = "removeInterval" =>
        /\ ~MapHas(tm.authorizationsByAlarmKeyEnter, keyEnter(LastCallAuthorization))
        /\ ~MapHas(tm.authorizationsByAlarmKeyExit, keyExit(LastCallAuthorization))
        /\ ~MapHas(alarms, keyEnter(LastCallAuthorization))
        /\ ~MapHas(alarms, keyExit(LastCallAuthorization))

\* C21 witness: an interval was removed after its enter alarm had fired, the
\* firing being not handled yet, and before its exit alarm was due.
C21_Witness ==
    /\ ev.op = "removeInterval"
    /\ keyEnter(LastCallAuthorization) \in fired
    /\ now < LastCallAuthorization.interval.end - FIVE_MINUTES_MS

\* C22: _onAlarm called with an alarm whose name is in neither lookup table
\* returns at once: it throws nothing, starts no _checkDomain, and leaves the
\* TimeManager, the alarms, the RuleManager with its queues, the rule store
\* and the pending tasks as they were.
C22_UnknownAlarmIsNoOp ==
    [][\A name \in fired :
          (/\ name \notin fired'
           /\ ~MapHas(tm.authorizationsByAlarmKeyEnter, name)
           /\ ~MapHas(tm.authorizationsByAlarmKeyExit, name))
          => /\ ev'.op = "alarmIgnored"
             /\ ev'.decision = "none"
             /\ tm' = tm
             /\ alarms' = alarms
             /\ rm' = rm
             /\ sessionRules' = sessionRules
             /\ guard' = guard
             /\ tasks' = tasks]_vars

\* C22 witness: an alarm fired, its authorization, the last of a.com, was
\* removed, and then _onAlarm handled the firing.
C22_Witness ==
    /\ ev.op = "alarmIgnored"
    /\ fired = {}
    /\ ~MapHas(tm.authorizationsByDomain, "a.com")
    /\ tm.authorizationsByAlarmKeyEnter = EmptyMap

\* C23 (as claimed): an exit alarm fires at most once at or after the end of
\* the interval of its authorization: the handling of that firing clears it.
C23_ExitAlarmFiresOnceAfterEnd ==
    \A name \in DOMAIN lateFirings : lateFirings[name] <= 1

\* ------------------------------------------------------------------------
\* C24 (as claimed): a TimeManager.flush reevaluates every domain that was
\* dirty when it was called: it never ends with domains of its local
\* domainsToCheck that it has not checked.
C24_FlushChecksEveryDirtyDomain ==
    [][\A task \in tasks :
          (task.kind = "flush" /\ ev'.op = "updateFailed" /\ tasks' = tasks \ {task})
              => task.todo = <<>>]_vars

\* C27 (as claimed): when updateSessionRules rejects, the additions and the
\* removals it was called with are pending again in the queues of the
\* RuleManager, for the next flush to send.
C27_FailedUpdateKeepsQueues ==
    [][\A task \in tasks :
          (task.pc = "update" /\ ev'.op = "updateFailed" /\ tasks' = tasks \ {task})
              => /\ \A rule \in Range(task.update.addRules) : SeqHas(rm'.addRules, rule)
                 /\ \A id \in Range(task.update.removeRuleIds) : SeqHas(rm'.removeRuleIds, id)]_vars

\* C28 (as claimed): when the _checkDomain of one domain fails inside
\* TimeManager.flush, the flush goes on: each domain left in its local
\* domainsToCheck is checked next or waits in the flush, unless it has no
\* interval to check.
C28_FailureIsDomainScoped ==
    [][\A task \in tasks :
          (/\ task.kind = "flush"
           /\ ~task.final
           /\ task.pc = "update"
           /\ ev'.op = "updateFailed"
           /\ task \notin tasks')
          => \A d \in Range(task.todo) :
                \/ ~MapHas(tm'.authorizationsByDomain, d)
                \/ \E next \in tasks' \ tasks :
                      next.kind = "flush" /\ (next.domain = d \/ SeqHas(next.todo, d))]_vars

\* ------------------------------------------------------------------------
\* C25: a RuleManager.flush entered with both queues empty calls neither
\* updateSessionRules nor getSessionRules and leaves the RuleManager (cache
\* and queues) and the rule store as they were, be it the flush that ends a
\* TimeManager.flush with nothing to check or the flush of a _checkDomain that
\* allows a domain without rule.
C25_EmptyFlushIsNoOp ==
    [][(ev'.op = "flush" /\ rm.addRules = <<>> /\ rm.removeRuleIds = <<>>) =>
          /\ ev'.decision = "none" =>
                (rm' = rm /\ sessionRules' = sessionRules /\ tasks' = tasks)
          /\ (ev'.decision = "ALLOWED" /\ ~MapHas(rm.currentRulesByDomain, ev'.domain)) =>
                /\ rm' = rm
                /\ sessionRules' = sessionRules
                /\ \A task \in tasks' \ tasks : task.pc = "tabsAllowed" /\ task.sent = 0]_vars

\* C25 witness: flush() was called with nothing dirty and nothing queued while
\* the cache held a rule; nothing waits for the rule store.
C25_Witness ==
    /\ ev.op = "flush"
    /\ ev.decision = "none"
    /\ ev.calls = <<>>
    /\ rm.currentRules # <<>>
    /\ rm.addRules = <<>>
    /\ tasks = {}

\* ------------------------------------------------------------------------
\* The rules that forbidDomain has queued and that the rule store has not
\* received yet: in the queue of r, or in an update that a task of ts waits for.
PendingAdditions(r, ts) ==
    Range(r.addRules) \cup UNION {Range(task.update.addRules) : task \in {t \in ts : t.pc = "update"}}

\* C26: init() leaves the counter at or above every id of the rule store, the
\* counter never decreases, and every rule that a step queues has an id that
\* is at least 1, above the counter as it was (hence above every id found in
\* the store by init() and every id allocated before), and different from the
\* id of every other rule queued, in flight or in the rule store.
C26_AllocatedRuleIdsAreFresh ==
    [][/\ rm'.counter >= rm.counter
       /\ starting' < starting =>
             \A k \in 1..Len(sessionRules) : sessionRules[k].id <= rm'.counter
       /\ \A rule \in PendingAdditions(rm', tasks') \ PendingAdditions(rm, tasks) :
             /\ rule.id >= 1
             /\ rule.id > rm.counter
             /\ rule.id <= rm'.counter
             /\ \A other \in (PendingAdditions(rm', tasks') \cup Range(sessionRules')) \ {rule} :
                   other.id # rule.id]_vars

\* C26 witness: the rule left by a previous run (id 3) is in the rule store
\* and two rules allocated since wait for the store, one after the other.
C26_Witness ==
    /\ BlockRule(3, "a.com") \in Range(sessionRules)
    /\ \E first, second \in PendingAdditions(rm, tasks) :
          3 < first.id /\ first.id < second.id

\* ------------------------------------------------------------------------
\* The intervals of the store for domain with the start and end of interval.
StoredLike(domain, interval) ==
    {i \in Range(tm.authorizationsByDomain[domain]) :
        i.start = interval.start /\ i.end = interval.end}

\* C29 (as claimed): after two addInterval calls in a row with the same domain
\* and intervals of the same start and end, the store holds one authorization
\* for that pair, its enter alarm and its exit alarm are registered, and the
\* domain is dirty.
C29_AddIntervalTwiceLeavesOne ==
    (/\ ev.op = "addInterval"
     /\ Len(ev.calls) = 2
     /\ ev.calls[1].op = "addInterval"
     /\ ev.calls[1].domain = ev.calls[2].domain
     /\ ev.calls[1].interval.start = ev.calls[2].interval.start
     /\ ev.calls[1].interval.end = ev.calls[2].interval.end)
    => /\ MapHas(tm.authorizationsByDomain, ev.calls[2].domain)
       /\ Cardinality(StoredLike(ev.calls[2].domain, ev.calls[2].interval)) = 1
       /\ MapHas(alarms, keyEnter(LastCallAuthorization))
       /\ MapHas(alarms, keyExit(LastCallAuthorization))
       /\ SeqHas(tm.domainsToCheck, ev.calls[2].domain)

\* C30: no domain of the store of authorizations maps to an empty Map.
C30_NoEmptyStoreEntry ==
    \A domain \in DOMAIN tm.authorizationsByDomain :
        Len(tm.authorizationsByDomain[domain]) > 0

\* C30 witness: removeInterval has removed the only authorization of a domain,
\* and the store has no entry for the domain.
C30_Witness ==
    /\ ev.op = "removeInterval"
    /\ ev.calls[1].op = "addInterval"
    /\ ev.calls[1].domain = ev.calls[Len(ev.calls)].domain
    /\ ~MapHas(tm.authorizationsByDomain, ev.calls[Len(ev.calls)].domain)

\* ------------------------------------------------------------------------
\* C31: each recomputation of the url filters (urlFilters() called while
\* _urlFilters is null) leaves the one registration of _tabListener with
\* exactly the domains of the cache as its filter, or no registration at all
\* when the cache is empty: the registration of before is gone.
C31_GuardIsTheCacheAtRecomputation ==
    [][(rm.urlFilters.isNull /\ ~rm'.urlFilters.isNull) =>
          /\ rm'.urlFilters.filters = DOMAIN rm'.currentRulesByDomain
          /\ guard'.installed <=> (DOMAIN rm'.currentRulesByDomain # {})
          /\ guard'.urls = DOMAIN rm'.currentRulesByDomain]_vars

\* C31 witness: a startup found the rule of a previous run (the counter was
\* seeded from id 3) and installed the guard; the rule has left the store and
\* a later startup has recomputed the filters: no guard is installed.
C31_Witness ==
    /\ rm.counter >= 4
    /\ sessionRules = <<>>
    /\ rm.currentRulesByDomain = EmptyMap
    /\ ~rm.urlFilters.isNull
    /\ ~guard.installed

\* C38 (as claimed): when no task of the TimeManager waits for I/O, the guard
\* covers only domains that have a rule in the cache of the RuleManager.
C38_GuardCoversOnlyCachedRules ==
    tasks = {} => (guard.installed => guard.urls \subseteq DOMAIN rm.currentRulesByDomain)

\* ------------------------------------------------------------------------
\* The browser fires the alarm name in this step.
Fires(name) ==
    /\ now' = now /\ tm' = tm /\ tasks' = tasks /\ fetches' = fetches
    /\ fired \subseteq fired'
    /\ MapHas(alarms, name)
    /\ alarms[name].when <= now
    /\ ~MapHas(alarms', name) \/ alarms'[name].when > alarms[name].when

\* C32 (as claimed): once the onInstalled handler has completed (its first
\* refresh is done), an alarm that fires and whose name is a key of one of
\* the lookup tables is delivered to _onAlarm.
C32_FiringReachesTheHandler ==
    [][\A name \in DOMAIN alarms :
          (/\ installs >= 1 /\ starting = 0 /\ fetches >= 1
           /\ Fires(name)
           /\ \/ MapHas(tm.authorizationsByAlarmKeyEnter, name)
              \/ MapHas(tm.authorizationsByAlarmKeyExit, name))
          => name \in fired']_vars

C39_NoEntryNoDecision ==
    [][/\ \A rule \in PendingAdditions(rm', tasks') \ PendingAdditions(rm, tasks) :
             MapHas(tm'.authorizationsByDomain, RuleDomain(rule))
       /\ (/\ ev'.op = "flush"
           /\ tm.domainsToCheck # <<>>
           /\ \A d \in Range(tm.domainsToCheck) : ~MapHas(tm.authorizationsByDomain, d))
          => /\ rm' = rm
             /\ tasks' = {}
             /\ ev'.decision = "none"
             /\ ev'.done = NoDone]_vars

\* C39 witness: a flush() after addInterval and removeInterval of the same
\* pair, at an instant outside the interval, for a domain the rule store does
\* not block: the reevaluation found no entry, where a FORBIDDEN decision
\* would have queued a rule.
C39_Witness ==
    /\ ev.op = "flush"
    /\ Len(ev.calls) = 2
    /\ ev.calls[1].op = "addInterval" /\ ev.calls[2].op = "removeInterval"
    /\ ev.calls[1].domain = ev.calls[2].domain
    /\ ~(ev.calls[1].interval.start <= now /\ now < ev.calls[1].interval.end)
    /\ ~MapHas(tm.authorizationsByDomain, ev.calls[1].domain)
    /\ ev.calls[1].domain \notin BlockedDomains(sessionRules)
    /\ rm.addRules = <<>>

\* ------------------------------------------------------------------------
\* C36 (as claimed): after a refresh, every authorization of the store is the
\* value of its enter key and of its exit key in the lookup tables, both
\* alarms are registered, and every value of the tables is in the store.
C36_TablesAgreeWithStore ==
    ev.op = "processUpdate" =>
        /\ \A d \in DOMAIN tm.authorizationsByDomain :
              \A i \in Range(tm.authorizationsByDomain[d]) :
                 LET a == Authorization(d, i)
                 IN /\ MapHas(tm.authorizationsByAlarmKeyEnter, keyEnter(a))
                    /\ tm.authorizationsByAlarmKeyEnter[keyEnter(a)] = a
                    /\ MapHas(tm.authorizationsByAlarmKeyExit, keyExit(a))
                    /\ tm.authorizationsByAlarmKeyExit[keyExit(a)] = a
                    /\ MapHas(alarms, keyEnter(a))
                    /\ MapHas(alarms, keyExit(a))
        /\ \A table \in {tm.authorizationsByAlarmKeyEnter, tm.authorizationsByAlarmKeyExit} :
              \A key \in DOMAIN table :
                 /\ MapHas(tm.authorizationsByDomain, table[key].domain)
                 /\ SeqHas(tm.authorizationsByDomain[table[key].domain], table[key].interval)

\* ------------------------------------------------------------------------
\* (domain, start, end) of the authorizations of the store.
StorePairs ==
    UNION {{<<d, i.start, i.end>> : i \in Range(tm.authorizationsByDomain[d])} :
              d \in DOMAIN tm.authorizationsByDomain}

\* C37: in every state (the config and the store change in the same step) the
\* pairs of the store are the pairs of the stored config, and more: the store
\* holds for each domain the very Interval objects of the config; the diff of
\* a refresh never throws, whatever was fetched before.
C37_StoreIsTheConfig ==
    /\ StorePairs = ConfigPairs(config)
    /\ \A k \in 1..Len(config) :
          Range(config[k].intervals) =
              IF MapHas(tm.authorizationsByDomain, config[k].domain)
              THEN Range(tm.authorizationsByDomain[config[k].domain])
              ELSE {}
    /\ ev.op # "processFailed"

\* C37 witness: a refresh has replaced a config by one that repeats one of its
\* intervals, with a removeInterval call, and the store is not empty.
C37_Witness ==
    /\ ev.op = "processUpdate"
    /\ ConfigPairs(ev.before) \cap ConfigPairs(config) # {}
    /\ CallPairs(ev.calls, "removeInterval") # {}
    /\ StorePairs # {}

\* ------------------------------------------------------------------------
\* C34 (as claimed): when no call waits for I/O and both queues of the
\* RuleManager are empty, the rule store blocks a domain that has been
\* reevaluated if and only if its most recent decision was FORBIDDEN.
C34_StoreFollowsLastDecision ==
    (tasks = {} /\ rm.addRules = <<>> /\ rm.removeRuleIds = <<>>) =>
        \A d \in DOMAIN lastDecision :
            (d \in BlockedDomains(sessionRules)) <=> (lastDecision[d] = "FORBIDDEN")

\* ------------------------------------------------------------------------
\* C35 (as claimed): after the refresh that replaced a.com's two intervals by
\* one of them, once its flush and every other call have completed, the rule
\* store blocks a.com if the check of a.com made last (the one of that
\* refresh's flush) found no interval that contains the instant.
C35_ShrunkDomainIsBlockedWhenForbidden ==
    (/\ fetches = 2
     /\ ConfigPairs(config) # ConfigPairs(fetchConfig(RefreshFirst, 0).config)
     /\ tasks = {} /\ rm.addRules = <<>> /\ rm.removeRuleIds = <<>>
     /\ MapHas(lastDecision, "a.com") /\ lastDecision["a.com"] = "FORBIDDEN")
    => "a.com" \in BlockedDomains(sessionRules)


====
